---- MODULE Spec2Model ----
(***************************************************************************)
(* The client of the generation server (RuntimeEndpoint in                 *)
(* python/sglang/lang/backend/runtime_endpoint.py) as a state machine.     *)
(*                                                                         *)
(* Spec        one action per call on a session: construction, the proxy   *)
(*             calls, the priming calls, generate, the opening of          *)
(*             generate_stream, select and concatenate_and_append.  The    *)
(*             state is the session object plus the record of the last     *)
(*             call: its arguments, the requests it dispatched, the        *)
(*             responses it received, the exception it raised and the      *)
(*             value it returned.                                          *)
(* SpecStream  the frame loop of one generate_stream call: one action per  *)
(*             line read from the streaming body.                          *)
(*                                                                         *)
(* Python values: None is the empty tuple and a set optional value v is    *)
(* the tuple <<v>>; strings that are sliced or concatenated are tuples of  *)
(* characters; a dict is a function whose DOMAIN is its set of keys.       *)
(* Exceptions are records [cls, detail] holding the Python class raised    *)
(* and its argument.  Temperatures are in units of 1e-6.                   *)
(***************************************************************************)
EXTENDS Integers, Sequences, FiniteSets, TLC

VARIABLES
    phase,       \* "new" | "ready" | "failed": the session object's construction
    self,        \* the session's attributes, as set by __init__
    infoFetches, \* requests sent to /get_model_info so far
    op,          \* the name of the last call
    args,        \* its arguments
    sent,        \* the requests it dispatched, in order
    got,         \* the transport's answers to them, in order
    err,         \* the exception it raised, or NoErr
    ret,         \* the value it returned, or NoRet
    st,          \* the stream: "closed" | "open" | "done" | "exhausted" | "failed" | "cancelled"
    pos,         \* the stream cursor (local pos of generate_stream)
    consumed,    \* the lines read from the streaming body, in order
    yielded,     \* the (chunk_text, meta_info) pairs yielded, in order
    files,       \* run_unittest_files: what each file's worker does, in list order
    idx,         \* the position in files of the loop's current filename (0 before the loop)
    rpc,         \* where run_unittest_files is
    tpc,         \* where the helper thread of run_with_timeout is
    proc,        \* the worker process p of the current file
    exitcode,    \* p.exitcode
    ret_value,   \* the list ret_value of run_with_timeout
    elapsed,     \* the timeout of the current t.join(timeout) has run out
    success,     \* the local success of run_unittest_files
    result,      \* what run_unittest_files returned or raised
    outcome,     \* per file: how the runner classified it
    spawned,     \* the files whose worker was started, in the order of p.start()
    live,        \* the files whose worker process is running
    atTimeout,   \* what the worker was doing when the timeout of t.join ran out
    lpc,         \* popen_launch_server: where it is
    polls,       \* the answers its polls of /v1/models got, in order
    expired,     \* its timeout period has ended
    launched     \* what it returned or raised

streamVars == <<st, pos, consumed, yielded>>

sessionVars == <<phase, self, infoFetches, op, args, sent, got, err, ret, st, pos, consumed, yielded>>

runnerVars ==
    <<files, idx, rpc, tpc, proc, exitcode, ret_value, elapsed, success, result, outcome,
      spawned, live, atTimeout>>

launchVars == <<lpc, polls, expired, launched>>

vars == <<sessionVars, runnerVars, launchVars>>

----------------------------------------------------------------------------
\* Bounds of the model.

\* Longest cumulative text a response carries.
MaxLen == 2
\* Most lines read from one streaming body.
MaxFrames == 3
\* Most choices passed to select.
MaxChoices == 2
\* Largest prompt token count the priming response reports.
MaxPromptTokens == 5
\* Most images attached to a program state.
MaxImages == 2
\* Most source ids passed to concatenate_and_append.
MaxSrcRids == 2
\* Most files handed to run_unittest_files.
MaxFiles == 3
\* Most polls popen_launch_server is followed through.
MaxPolls == 3

----------------------------------------------------------------------------
\* Python values.

None == <<>>

Some(v) == <<v>>

NoErr == [cls |-> "none", detail |-> "none"]

Raise(cls, detail) == [cls |-> cls, detail |-> detail]

NoRet == [kind |-> "none"]

NoArgs == [kind |-> "none"]

\* A dict with the items of d and, for the keys d lacks, those of e: what
\* {**e, **d}, or assigning d's items into e, gives.
Merge(d, e) ==
    [k \in DOMAIN d \cup DOMAIN e |-> IF k \in DOMAIN d THEN d[k] ELSE e[k]]

\* The maximum of two integers (Python's max).
Max(a, b) == IF a >= b THEN a ELSE b

\* Python's slice seq[from:], with from a 0-based index >= 0: empty when from
\* is at or past the end.
SliceFrom(seq, from) == SubSeq(seq, from + 1, Len(seq))

\* All tuples over S of length at most n.
SeqUpTo(S, n) == UNION {[1..k -> S] : k \in 0..n}

Chars == {"a", "b"}

Texts == SeqUpTo(Chars, MaxLen)

\* The accumulated prompt text of a program state (s.text_).
Prompts == {<<"p">>, <<"p", "q">>}

\* The i-th attached image, a (path, data) pair as in s.images_.
Image(i) == <<"path", i>>

ImageList(n) == [i \in 1..n |-> Image(i)]

\* StreamExecutor states the client reads: text_ and images_.
ProgramStates == [text_ : Prompts, images_ : {ImageList(n) : n \in 0..MaxImages}]

----------------------------------------------------------------------------
\* The transport and the server, as the client sees them.

\* Status codes the server answers with.
StatusCodes == {200, 204, 500}

\* Decoded bodies of non-200 answers.
ErrBodies == {"overloaded", "bad request"}

\* What http_request gives for one request: no answer (the transport could not
\* reach the server), or a response with a status code and a decoded body.
Unreachable == [reachable |-> FALSE, status_code |-> 0, body |-> "none"]

Answer(status, body) == [reachable |-> TRUE, status_code |-> status, body |-> body]

\* The answers to one request whose 200 body is drawn from okBodies.
Answers(okBodies) ==
    {Unreachable}
        \cup {Answer(200, b) : b \in okBodies}
        \cup {Answer(c, b) : c \in StatusCodes \ {200}, b \in ErrBodies}

\* http_request raises when the transport cannot reach the server and returns
\* the response otherwise, whatever its status.
HttpRequest(res) ==
    IF res.reachable THEN NoErr ELSE Raise("ConnectionError", "unreachable")

\* _assert_success: a status other than 200 raises RuntimeError(res.json()).
\* (variant: the detail is not the body)
AssertSuccessMutStatus(res) ==
    IF res.status_code # 200 THEN Raise("RuntimeError", "status") ELSE NoErr

AssertSuccess(res) ==
    IF res.status_code # 200 THEN Raise("RuntimeError", res.body) ELSE NoErr

\* The exception of one request/response step: http_request, then _assert_success.
StepErr(res) ==
    IF HttpRequest(res) # NoErr THEN HttpRequest(res) ELSE AssertSuccess(res)

\* A request as handed to http_request: the url, the keyword arguments
\* carrying the credential and the TLS mode, and the json payload (None for
\* a request without one).
Request(url, cred, verify, json, stream) ==
    [url |-> url, api_key |-> cred, verify |-> verify, json |-> json, stream |-> stream]

----------------------------------------------------------------------------
\* The session object.

NoObj == [a \in {} |-> None]

BaseUrls == {"http://host"}

ApiKeys == {None, Some("secret")}

Verifies == {None}

ModelPaths == {"llama", "vicuna"}

\* Decoded bodies of /get_model_info.
ModelInfos == [model_path : ModelPaths]

\* get_chat_template_by_model_path: the template registered for a model path.
get_chat_template_by_model_path(model_path) ==
    IF model_path = "vicuna" THEN "vicuna_v1.1" ELSE "default"

\* The requests among reqs that fetch the model metadata.
InfoRequests(reqs) ==
    Cardinality({i \in 1..Len(reqs) : reqs[i].url \in {b \o "/get_model_info" : b \in BaseUrls}})

\* self.<name>: AttributeError when __init__ never set the attribute.
HasAttr(obj, name) == name \in DOMAIN obj

AttrErr(obj, name) ==
    IF HasAttr(obj, name) THEN NoErr ELSE Raise("AttributeError", name)

\* The state after a call that ran to its end or raised.
Finish(o, a, reqs, ress, e, r) ==
    /\ op' = o
    /\ args' = a
    /\ sent' = reqs
    /\ got' = ress
    /\ err' = e
    /\ ret' = IF e = NoErr THEN r ELSE NoRet
    /\ infoFetches' = infoFetches + InfoRequests(reqs)
    /\ UNCHANGED <<runnerVars, launchVars>>

\* A call abandons the stream of an earlier generate_stream call.
CloseStream ==
    /\ st' = "closed"
    /\ pos' = 0
    /\ consumed' = <<>>
    /\ yielded' = <<>>

\* No run of run_unittest_files is in progress.
NoProc == "none"

NoResult == [kind |-> "none"]

RunnerIdle ==
    /\ files = <<>>
    /\ idx = 0
    /\ rpc = "idle"
    /\ tpc = "none"
    /\ proc = NoProc
    /\ exitcode = None
    /\ ret_value = <<>>
    /\ elapsed = FALSE
    /\ success = TRUE
    /\ result = NoResult
    /\ outcome = <<>>
    /\ spawned = <<>>
    /\ live = {}
    /\ atTimeout = NoProc

\* popen_launch_server is not running.
LaunchIdle ==
    /\ lpc = "idle"
    /\ polls = <<>>
    /\ expired = FALSE
    /\ launched = NoResult

Init ==
    /\ phase = "new"
    /\ self = NoObj
    /\ infoFetches = 0
    /\ op = "none"
    /\ args = NoArgs
    /\ sent = <<>>
    /\ got = <<>>
    /\ err = NoErr
    /\ ret = NoRet
    /\ st = "closed"
    /\ pos = 0
    /\ consumed = <<>>
    /\ yielded = <<>>
    /\ RunnerIdle
    /\ LaunchIdle

\* RuntimeEndpoint.__init__
Construct(base_url, api_key, verify) ==
    /\ phase = "new"
    /\ \E res \in Answers(ModelInfos) :
        LET req == Request(base_url \o "/get_model_info", api_key, verify, None, FALSE)
            e == StepErr(res)
            obj == [support_concate_and_append |-> TRUE,
                    base_url |-> base_url,
                    api_key |-> api_key,
                    verify |-> verify]
        IN  /\ IF e # NoErr
               THEN /\ phase' = "failed"
                    /\ self' = NoObj
               ELSE /\ phase' = "ready"
                    /\ self' = Merge(obj, [model_info |-> res.body,
                                       chat_template |->
                                           get_chat_template_by_model_path(res.body.model_path)])
            /\ Finish("__init__",
                      [base_url |-> base_url, api_key |-> api_key, verify |-> verify],
                      <<req>>, <<res>>, e, [kind |-> "session"])
    /\ UNCHANGED streamVars

\* A get_model_name that asks the server again instead of reading the cache.
GetModelNameMutRefetch ==
    /\ phase = "ready"
    /\ op = "none"
    /\ \E res \in Answers(ModelInfos) :
           Finish("get_model_name", NoArgs,
                  <<Request(self.base_url \o "/get_model_info", self.api_key, self.verify,
                            None, FALSE)>>,
                  <<res>>, StepErr(res),
                  IF StepErr(res) = NoErr
                  THEN [kind |-> "value", value |-> res.body.model_path]
                  ELSE NoRet)
    /\ CloseStream
    /\ UNCHANGED <<phase, self>>

\* RuntimeEndpoint.get_model_name
GetModelName ==
    /\ phase = "ready"
    /\ op = "none"
    /\ Finish("get_model_name", NoArgs, <<>>, <<>>, NoErr,
              [kind |-> "value", value |-> self.model_info.model_path])
    /\ CloseStream
    /\ UNCHANGED <<phase, self>>

\* RuntimeEndpoint.get_chat_template
GetChatTemplate ==
    /\ phase = "ready"
    /\ op = "none"
    /\ Finish("get_chat_template", NoArgs, <<>>, <<>>, NoErr,
              [kind |-> "value", value |-> self.chat_template])
    /\ CloseStream
    /\ UNCHANGED <<phase, self>>

\* A proxy call that reads its credential from self.<credAttr>: the attribute
\* is read while the arguments of http_request are evaluated, before the call.
Proxy(name, path, credAttr, okBodies, hasValue) ==
    /\ phase = "ready"
    /\ op = "none"
    /\ IF AttrErr(self, credAttr) # NoErr
       THEN Finish(name, NoArgs, <<>>, <<>>, AttrErr(self, credAttr), NoRet)
       ELSE \E res \in Answers(okBodies) :
               Finish(name, NoArgs,
                      <<Request(self.base_url \o path, self[credAttr], self.verify, None, FALSE)>>,
                      <<res>>, StepErr(res),
                      IF hasValue THEN [kind |-> "value", value |-> res.body]
                                  ELSE [kind |-> "unit"])
    /\ CloseStream
    /\ UNCHANGED <<phase, self>>

\* Decoded bodies of /get_server_args.
ServerArgs == {[model_path |-> m] : m \in ModelPaths}

\* The attribute flush_cache and get_server_args read the credential from
\* ("auth_token=self.auth_token"); __init__ stores the credential as api_key and
\* assigns no attribute of this name.
ProxyCredAttr == "auth_token"

\* RuntimeEndpoint.flush_cache
FlushCache == Proxy("flush_cache", "/flush_cache", ProxyCredAttr, {"ok"}, FALSE)

\* RuntimeEndpoint.get_server_args
GetServerArgs == Proxy("get_server_args", "/get_server_args", ProxyCredAttr, ServerArgs, TRUE)

----------------------------------------------------------------------------
\* The Request Builder.

\* sampling_params.dtype: None, the type int, the string "int", or anything else.
DtNone == "None"

Dtypes == {DtNone, "int_type", "int", "float"}

\* SglSamplingParams, the fields the client reads.
SamplingParamsSet ==
    [dtype : Dtypes,
     max_new_tokens : {0, 16},
     temperature : {0},
     stop : {None},
     return_logprob : {None, Some(TRUE), Some(FALSE)},
     logprob_start_len : {None, Some(0)},
     top_logprobs_num : {None, Some(1)},
     return_text_in_logprobs : {None, Some(TRUE)}]

\* The process-wide output-formatting flags read at call time.
global_config ==
    [skip_special_tokens_in_output |-> TRUE,
     spaces_between_special_tokens_in_out |-> TRUE]

\* SglSamplingParams.to_srt_kwargs: the sampling fields of the wire payload.
to_srt_kwargs(sp) ==
    [max_new_tokens |-> sp.max_new_tokens,
     stop |-> sp.stop,
     temperature |-> sp.temperature]

\* A builder's result: the exception raised, or the payload.
Built(data) == [err |-> NoErr, data |-> data]

Failed(e) == [err |-> e, data |-> NoObj]

\* The formatting flags of sampling_params, merged under to_srt_kwargs (in
\* {a: .., **kwargs} a key of kwargs wins).
FormatFlags ==
    [skip_special_tokens |-> global_config.skip_special_tokens_in_output,
     spaces_between_special_tokens |-> global_config.spaces_between_special_tokens_in_out]

\* The if/elif/else on sampling_params.dtype that opens generate and
\* generate_stream.
DtypeData(text_, sp) ==
    IF sp.dtype = DtNone
    THEN Built([text |-> text_, sampling_params |-> Merge(to_srt_kwargs(sp), FormatFlags)])
    ELSE IF sp.dtype \in {"int_type", "int"}
    THEN Built([text |-> text_,
                sampling_params |->
                    Merge(Merge(to_srt_kwargs(sp), FormatFlags), [dtype |-> "int"])])
    ELSE Failed(Raise("RuntimeError", "Invalid dtype"))

\* The optional logprob-instrumentation fields, in the order of the loop.
LogprobItems ==
    <<"return_logprob", "logprob_start_len", "top_logprobs_num", "return_text_in_logprobs">>

\* The loop "for item in [...]: value = getattr(sampling_params, item, None);
\* if value is not None: data[item] = value".
\* (variant: "if value:", which also leaves out False and 0)
LogprobDataMutTruthy(sp, data) ==
    LET falsy(k) == IF k \in {"logprob_start_len", "top_logprobs_num"}
                    THEN sp[k][1] = 0
                    ELSE sp[k][1] = FALSE
        set == {i \in 1..Len(LogprobItems) :
                   sp[LogprobItems[i]] # None /\ ~falsy(LogprobItems[i])}
    IN  Merge([k \in {LogprobItems[i] : i \in set} |-> sp[k][1]], data)

LogprobData(sp, data) ==
    LET set == {i \in 1..Len(LogprobItems) : sp[LogprobItems[i]] # None}
    IN  Merge([k \in {LogprobItems[i] : i \in set} |-> sp[k][1]], data)

\* _add_images: "if s.images_: assert len(s.images_) == 1;
\* data['image_data'] = s.images_[0][1]".
\* (variant: without the assertion)
AddImagesMutNoAssert(s, data) ==
    IF s.images_ # <<>>
    THEN Built(Merge([image_data |-> s.images_[1][2]], data))
    ELSE Built(data)

AddImages(s, data) ==
    IF s.images_ # <<>>
    THEN IF Len(s.images_) = 1
         THEN Built(Merge([image_data |-> s.images_[1][2]], data))
         ELSE Failed(Raise("AssertionError", "Only support one image."))
    ELSE Built(data)

\* The payload of generate (stream = FALSE) and of generate_stream (stream =
\* TRUE): the dtype branch, the logprob loop, the stream flag, the images.
GenerateData(s, sp, stream) ==
    LET d == DtypeData(s.text_, sp)
    IN  IF d.err # NoErr
        THEN d
        ELSE AddImages(s, IF stream
                          THEN Merge([stream |-> TRUE], LogprobData(sp, d.data))
                          ELSE LogprobData(sp, d.data))

\* The payload of the zero-new-token requests of cache_prefix,
\* commit_lazy_operations, fill_image and the priming step of select.
PrimeData(text_) == [text |-> text_, sampling_params |-> [max_new_tokens |-> 0]]

\* A decoded generation result: the text and its metadata.
Snapshot(t) == [text |-> t, meta_info |-> [completion_tokens |-> Len(t)]]

\* Decoded 200 bodies of a unary generation.
GenBodies == {Snapshot(t) : t \in Texts}

\* A post to /generate with the session's credential and TLS mode.
GenerateRequest(data, stream) ==
    Request(self.base_url \o "/generate", self.api_key, self.verify, Some(data), stream)

\* build, then one request/response step, for the calls that return nothing.
\* (variant: a request that failed is sent once more)
PrimeCallMutRetry(name, a, d) ==
    /\ phase = "ready"
    /\ op = "none"
    /\ IF d.err # NoErr
       THEN Finish(name, a, <<>>, <<>>, d.err, NoRet)
       ELSE \E res \in Answers(GenBodies), again \in Answers(GenBodies) :
               IF StepErr(res) = NoErr
               THEN Finish(name, a, <<GenerateRequest(d.data, FALSE)>>, <<res>>, NoErr,
                           [kind |-> "unit"])
               ELSE Finish(name, a,
                           <<GenerateRequest(d.data, FALSE), GenerateRequest(d.data, FALSE)>>,
                           <<res, again>>, StepErr(again), [kind |-> "unit"])
    /\ CloseStream
    /\ UNCHANGED <<phase, self>>

PrimeCall(name, a, d) ==
    /\ phase = "ready"
    /\ op = "none"
    /\ IF d.err # NoErr
       THEN Finish(name, a, <<>>, <<>>, d.err, NoRet)
       ELSE \E res \in Answers(GenBodies) :
               Finish(name, a, <<GenerateRequest(d.data, FALSE)>>, <<res>>, StepErr(res),
                      [kind |-> "unit"])
    /\ CloseStream
    /\ UNCHANGED <<phase, self>>

\* RuntimeEndpoint.cache_prefix
CachePrefix(prefix_str) ==
    PrimeCall("cache_prefix", [prefix_str |-> prefix_str], Built(PrimeData(prefix_str)))

\* RuntimeEndpoint.commit_lazy_operations
CommitLazyOperations(s) ==
    PrimeCall("commit_lazy_operations", [s |-> s], AddImages(s, PrimeData(s.text_)))

\* RuntimeEndpoint.fill_image
FillImage(s) ==
    PrimeCall("fill_image", [s |-> s], AddImages(s, PrimeData(s.text_)))

\* RuntimeEndpoint.generate
Generate(s, sp) ==
    /\ phase = "ready"
    /\ op = "none"
    /\ LET a == [s |-> s, sampling_params |-> sp]
           d == GenerateData(s, sp, FALSE)
       IN  IF d.err # NoErr
           THEN Finish("generate", a, <<>>, <<>>, d.err, NoRet)
           ELSE \E res \in Answers(GenBodies) :
                   Finish("generate", a, <<GenerateRequest(d.data, FALSE)>>, <<res>>,
                          StepErr(res),
                          [kind |-> "generate", comp |-> res.body.text,
                           meta_info |-> res.body.meta_info])
    /\ CloseStream
    /\ UNCHANGED <<phase, self>>

\* RuntimeEndpoint.generate_stream, from the call to the head of the loop over
\* the response's lines: the payload, the request, _assert_success, pos = 0.
\* (The body of a generator function runs when the consumer first pulls.)
GenerateStream(s, sp) ==
    /\ phase = "ready"
    /\ op = "none"
    /\ LET a == [s |-> s, sampling_params |-> sp]
           d == GenerateData(s, sp, TRUE)
       IN  IF d.err # NoErr
           THEN /\ Finish("generate_stream", a, <<>>, <<>>, d.err, NoRet)
                /\ st' = "failed"
           ELSE \E res \in Answers({"lines"}) :
                   /\ Finish("generate_stream", a, <<GenerateRequest(d.data, TRUE)>>, <<res>>,
                             StepErr(res), [kind |-> "stream"])
                   /\ st' = IF StepErr(res) = NoErr THEN "open" ELSE "failed"
    /\ pos' = 0
    /\ consumed' = <<>>
    /\ yielded' = <<>>
    /\ UNCHANGED <<phase, self>>

----------------------------------------------------------------------------
\* The Selection Protocol.

\* "assert temperature <= 1e-5", in units of 1e-6.
SelectMaxTemperature == 10

Temperatures == {0, 10, 11}

\* Candidate continuations.
ChoiceTexts == {<<"x">>, <<"y", "z">>}

ChoiceLists == SeqUpTo(ChoiceTexts, MaxChoices)

\* Normalized prompt log-probabilities the server reports.
Scores == {-2, -1}

\* Decoded 200 bodies of the priming request.
PrimeBodies ==
    {[text |-> <<>>, meta_info |-> [prompt_tokens |-> p]] : p \in 0..MaxPromptTokens}

\* One result of the batched scoring response.
ScoreResult(x) ==
    [text |-> <<>>,
     meta_info |-> [normalized_prompt_logprob |-> x,
                    input_token_logprobs |-> <<x>>,
                    output_token_logprobs |-> <<>>]]

\* Decoded 200 bodies of the scoring request for n inputs: one result per
\* input, in input order.
ScoreBodies(n) == {[i \in 1..n |-> ScoreResult(f[i])] : f \in [1..n -> Scores]}

\* "logprob_start_len": max(prompt_len - 2, 0)
\* (variant: without the clamp at 0)
LogprobStartLenMutNoClamp(prompt_len) == prompt_len - 2

LogprobStartLen(prompt_len) == Max(prompt_len - 2, 0)

\* "text": [s.text_ + c for c in choices]
\* (variant: the choices without the prompt)
ScoreTextsMutNoPrompt(text_, choices) == choices

ScoreTexts(text_, choices) == [i \in 1..Len(choices) |-> text_ \o choices[i]]

\* The payload of the scoring request, before _add_images.
ScoreData(text_, choices, prompt_len) ==
    [text |-> ScoreTexts(text_, choices),
     sampling_params |-> [max_new_tokens |-> 0],
     return_logprob |-> TRUE,
     logprob_start_len |-> LogprobStartLen(prompt_len)]

\* np.argmax of a non-empty list, as a 1-based index: the first position
\* holding the maximum.
\* (variant: the last position holding the maximum)
ArgMaxMutLast(xs) ==
    CHOOSE i \in 1..Len(xs) :
        /\ \A j \in 1..Len(xs) : xs[j] <= xs[i]
        /\ \A j \in (i + 1)..Len(xs) : xs[j] < xs[i]

ArgMax(xs) ==
    CHOOSE i \in 1..Len(xs) :
        /\ \A j \in 1..Len(xs) : xs[j] <= xs[i]
        /\ \A j \in 1..(i - 1) : xs[j] < xs[i]

\* The tail of select, from the decoded scoring response obj: the exception
\* (np.argmax raises ValueError on an empty list) and the returned tuple.
SelectResult(choices, obj) ==
    LET normalized_prompt_logprobs ==
            [i \in 1..Len(obj) |-> obj[i].meta_info.normalized_prompt_logprob]
    IN  IF Len(obj) = 0
        THEN [err |-> Raise("ValueError", "attempt to get argmax of an empty sequence"),
              ret |-> NoRet]
        ELSE [err |-> NoErr,
              ret |-> [kind |-> "select",
                       decision |-> choices[ArgMax(normalized_prompt_logprobs)],
                       normalized_prompt_logprobs |-> normalized_prompt_logprobs,
                       input_token_logprobs |->
                           [i \in 1..Len(obj) |-> obj[i].meta_info.input_token_logprobs],
                       output_token_logprobs |->
                           [i \in 1..Len(obj) |-> obj[i].meta_info.output_token_logprobs]]]

\* The scoring step of select, after a priming step that answered res1.
SelectScore(s, choices, a, req1, res1) ==
    LET prompt_len == res1.body.meta_info.prompt_tokens
        d2 == AddImages(s, ScoreData(s.text_, choices, prompt_len))
        req2 == GenerateRequest(d2.data, FALSE)
    IN  \E res2 \in Answers(ScoreBodies(Len(choices))) :
            IF StepErr(res2) # NoErr
            THEN Finish("select", a, <<req1, req2>>, <<res1, res2>>, StepErr(res2), NoRet)
            ELSE Finish("select", a, <<req1, req2>>, <<res1, res2>>,
                        SelectResult(choices, res2.body).err,
                        SelectResult(choices, res2.body).ret)

\* RuntimeEndpoint.select
Select(s, choices, temperature) ==
    /\ phase = "ready"
    /\ op = "none"
    /\ LET a == [s |-> s, choices |-> choices, temperature |-> temperature]
           d1 == AddImages(s, PrimeData(s.text_))
           req1 == GenerateRequest(d1.data, FALSE)
       IN  IF ~(temperature <= SelectMaxTemperature)
           THEN Finish("select", a, <<>>, <<>>, Raise("AssertionError", "temperature"), NoRet)
           ELSE IF d1.err # NoErr
           THEN Finish("select", a, <<>>, <<>>, d1.err, NoRet)
           ELSE \E res1 \in Answers(PrimeBodies) :
                   IF StepErr(res1) # NoErr
                   THEN Finish("select", a, <<req1>>, <<res1>>, StepErr(res1), NoRet)
                   ELSE SelectScore(s, choices, a, req1, res1)
    /\ CloseStream
    /\ UNCHANGED <<phase, self>>

----------------------------------------------------------------------------
\* The Cross-Request State Merge.

\* Request ids, issued by the server or not.
Rids == {"r1", "r2"}

\* A concatenate_and_append that checks its arguments before calling the
\* server: it rejects an empty src_rids and one that names an id twice.
ConcatenateAndAppendMutValidate(src_rids, dst_rid) ==
    /\ phase = "ready"
    /\ op = "none"
    /\ IF src_rids = <<>> \/ \E i, j \in 1..Len(src_rids) : i # j /\ src_rids[i] = src_rids[j]
       THEN Finish("concatenate_and_append", [src_rids |-> src_rids, dst_rid |-> dst_rid],
                   <<>>, <<>>, Raise("AssertionError", "src_rids"), NoRet)
       ELSE \E res \in Answers({"ok"}) :
               Finish("concatenate_and_append",
                      [src_rids |-> src_rids, dst_rid |-> dst_rid],
                      <<Request(self.base_url \o "/concate_and_append_request", self.api_key,
                                self.verify,
                                Some([src_rids |-> src_rids, dst_rid |-> dst_rid]), FALSE)>>,
                      <<res>>, StepErr(res), [kind |-> "unit"])
    /\ CloseStream
    /\ UNCHANGED <<phase, self>>

\* RuntimeEndpoint.concatenate_and_append
ConcatenateAndAppend(src_rids, dst_rid) ==
    /\ phase = "ready"
    /\ op = "none"
    /\ \E res \in Answers({"ok"}) :
          Finish("concatenate_and_append", [src_rids |-> src_rids, dst_rid |-> dst_rid],
                 <<Request(self.base_url \o "/concate_and_append_request", self.api_key,
                           self.verify, Some([src_rids |-> src_rids, dst_rid |-> dst_rid]),
                           FALSE)>>,
                 <<res>>, StepErr(res), [kind |-> "unit"])
    /\ CloseStream
    /\ UNCHANGED <<phase, self>>

----------------------------------------------------------------------------
\* The Streaming Generation Protocol: the loop over res.iter_lines().

\* A line of the streaming body, by what the loop tests of it:
\*   nonempty  "if chunk"
\*   prefixed  chunk.startswith("data:")
\*   rest      what follows the prefix: the sentinel " [DONE]", the JSON text
\*             of an object (obj, with the keys it has), or text that is no JSON.
StreamLine(nonempty, prefixed, rest, obj) ==
    [nonempty |-> nonempty, prefixed |-> prefixed, rest |-> rest, obj |-> obj]

BlankLine == StreamLine(FALSE, FALSE, "", NoObj)

CommentLine == StreamLine(TRUE, FALSE, ": ping", NoObj)

DoneLine == StreamLine(TRUE, TRUE, " [DONE]", NoObj)

GarbageLine == StreamLine(TRUE, TRUE, "garbage", NoObj)

DataLine(t) == StreamLine(TRUE, TRUE, "json", Snapshot(t))

\* A JSON object without the key "text".
NoTextLine == StreamLine(TRUE, TRUE, "json", [meta_info |-> [completion_tokens |-> 0]])

\* A JSON object without the key "meta_info".
NoMetaLine == StreamLine(TRUE, TRUE, "json", [text |-> <<"a">>])

Lines ==
    {BlankLine, CommentLine, DoneLine, GarbageLine, NoTextLine, NoMetaLine}
        \cup {DataLine(t) : t \in Texts}

\* json.loads(chunk[5:].strip("\n")): the object, or JSONDecodeError.
JsonLoads(chunk) ==
    IF chunk.rest = "json"
    THEN [err |-> NoErr, obj |-> chunk.obj]
    ELSE [err |-> Raise("JSONDecodeError", chunk.rest), obj |-> NoObj]

\* obj[key]: the value, or KeyError.
KeyErr(obj, key) == IF key \in DOMAIN obj THEN NoErr ELSE Raise("KeyError", key)

\* "chunk_text = data['text'][pos:]"
\* (variant: the whole snapshot, not sliced at the cursor)
ChunkTextMutWhole(text, p) == text

ChunkText(text, p) == SliceFrom(text, p)

\* "pos += len(chunk_text)"
\* (variant: the cursor is set to the length of the snapshot)
AdvanceMutSnapshot(p, text, chunk_text) == Len(text)

Advance(p, text, chunk_text) == p + Len(chunk_text)

\* What one iteration of the loop does with chunk at cursor p:
\*   skip   the line is not a data frame; nothing happens
\*   break  the line is the sentinel; the loop ends
\*   raise  decoding the frame raises; the exception leaves the generator
\*   yield  (chunk_text, meta_info) is yielded and the cursor advances
Skip(p) == [kind |-> "skip", pos |-> p, err |-> NoErr, out |-> <<>>]

Break(p) == [kind |-> "break", pos |-> p, err |-> NoErr, out |-> <<>>]

Raised(p, e) == [kind |-> "raise", pos |-> p, err |-> e, out |-> <<>>]

Yield(p, chunk_text, meta_info) ==
    [kind |-> "yield", pos |-> p, err |-> NoErr, out |-> <<<<chunk_text, meta_info>>>>]

\* The data frame branch, after the sentinel test.
\* (variant: a frame that does not decode is skipped)
DecodeFrameMutSwallow(chunk, p) ==
    LET d == JsonLoads(chunk)
    IN  IF d.err # NoErr THEN Skip(p)
        ELSE IF KeyErr(d.obj, "text") # NoErr THEN Skip(p)
        ELSE IF KeyErr(d.obj, "meta_info") # NoErr THEN Skip(p)
        ELSE Yield(Advance(p, d.obj.text, ChunkText(d.obj.text, p)),
                   ChunkText(d.obj.text, p), d.obj.meta_info)

DecodeFrame(chunk, p) ==
    LET d == JsonLoads(chunk)
    IN  IF d.err # NoErr THEN Raised(p, d.err)
        ELSE IF KeyErr(d.obj, "text") # NoErr THEN Raised(p, KeyErr(d.obj, "text"))
        ELSE IF KeyErr(d.obj, "meta_info") # NoErr THEN Raised(p, KeyErr(d.obj, "meta_info"))
        ELSE Yield(Advance(p, d.obj.text, ChunkText(d.obj.text, p)),
                   ChunkText(d.obj.text, p), d.obj.meta_info)

\* The body of "for chunk in res.iter_lines(...)".
\* (variant: the sentinel is skipped, not a break)
LoopBodyMutContinue(chunk, p) ==
    IF chunk.nonempty /\ chunk.prefixed
    THEN IF chunk = DoneLine THEN Skip(p) ELSE DecodeFrame(chunk, p)
    ELSE Skip(p)

\* (variant: every non-empty line is decoded, data prefix or not)
LoopBodyMutNoPrefixTest(chunk, p) ==
    IF chunk.nonempty
    THEN IF chunk = DoneLine THEN Break(p) ELSE DecodeFrame(chunk, p)
    ELSE Skip(p)

LoopBody(chunk, p) ==
    IF chunk.nonempty /\ chunk.prefixed
    THEN IF chunk = DoneLine THEN Break(p) ELSE DecodeFrame(chunk, p)
    ELSE Skip(p)

\* The stream's state after an iteration of the given kind.
StreamAfter(kind) ==
    IF kind = "break" THEN "done" ELSE IF kind = "raise" THEN "failed" ELSE "open"

\* The transport hands the loop its next line.
ReadLine(chunk) ==
    /\ st = "open"
    /\ Len(consumed) < MaxFrames
    /\ LET r == LoopBody(chunk, pos)
       IN  /\ consumed' = Append(consumed, chunk)
           /\ pos' = r.pos
           /\ yielded' = yielded \o r.out
           /\ st' = StreamAfter(r.kind)
           /\ err' = r.err
    /\ UNCHANGED <<phase, self, infoFetches, op, args, sent, got, ret>>
    /\ UNCHANGED <<runnerVars, launchVars>>

\* The body ends without a sentinel: iter_lines is exhausted and the
\* generator returns.
EndOfBody ==
    /\ st = "open"
    /\ st' = "exhausted"
    /\ UNCHANGED <<phase, self, infoFetches, op, args, sent, got, err, ret, pos, consumed, yielded>>
    /\ UNCHANGED <<runnerVars, launchVars>>

\* The consumer stops iterating.
Cancel ==
    /\ st = "open"
    /\ st' = "cancelled"
    /\ UNCHANGED <<phase, self, infoFetches, op, args, sent, got, err, ret, pos, consumed, yielded>>
    /\ UNCHANGED <<runnerVars, launchVars>>

\* The program state and sampling parameters of the streams followed line by line.
StreamState == [text_ |-> <<"p">>, images_ |-> <<>>]

StreamParams ==
    [dtype |-> DtNone, max_new_tokens |-> 16, temperature |-> 0, stop |-> None,
     return_logprob |-> None, logprob_start_len |-> None, top_logprobs_num |-> None,
     return_text_in_logprobs |-> None]

\* A constructed session on which no call is in progress.
InitStream ==
    /\ phase = "ready"
    /\ self = [support_concate_and_append |-> TRUE,
               base_url |-> "http://host",
               api_key |-> Some("secret"),
               verify |-> None,
               model_info |-> [model_path |-> "llama"],
               chat_template |-> get_chat_template_by_model_path("llama")]
    /\ infoFetches = 1
    /\ op = "none"
    /\ args = NoArgs
    /\ sent = <<>>
    /\ got = <<>>
    /\ err = NoErr
    /\ ret = NoRet
    /\ st = "closed"
    /\ pos = 0
    /\ consumed = <<>>
    /\ yielded = <<>>
    /\ RunnerIdle
    /\ LaunchIdle

NextStream ==
    \/ GenerateStream(StreamState, StreamParams)
    \/ \E chunk \in Lines : ReadLine(chunk)
    \/ EndOfBody
    \/ Cancel

SpecStream == InitStream /\ [][NextStream]_vars

----------------------------------------------------------------------------
\* The Bounded Test Runner: run_unittest_files and run_with_timeout.

\* Python's int and bool values.  bool is a subclass of int: False == 0 and
\* True == 1 hold, and exit(False) is exit(0).
PyInt(n) == [type |-> "int", v |-> n]

PyBool(b) == [type |-> "bool", v |-> IF b THEN 1 ELSE 0]

\* a == b on ints and bools.
PyEq(a, b) == a.v = b.v

Returned(value) == [kind |-> "return", value |-> value]

Propagated(cls) == [kind |-> "raise", cls |-> cls]

\* What the worker of a file does: unittest.main exits 0 when the tests
\* pass and 1 when they fail; a hanging test never exits on its own.
Behaviours == {"pass", "fail", "hang"}

ExitStatus(behaviour) == IF behaviour = "pass" THEN 0 ELSE 1

\* The exit code of a process killed by terminate() (SIGTERM).
SigTerm == -15

\* "for filename in files": the next filename, p = multiprocessing.Process(...),
\* and run_with_timeout up to t.start(); or the end of the list.
NextFile ==
    /\ rpc = "loop"
    /\ IF idx < Len(files)
       THEN /\ idx' = idx + 1
            /\ proc' = "unstarted"
            /\ exitcode' = None
            /\ ret_value' = <<>>
            /\ tpc' = "start"
            /\ elapsed' = FALSE
            /\ rpc' = "joining"
       ELSE /\ rpc' = "after_loop"
            /\ UNCHANGED <<idx, proc, exitcode, ret_value, tpc, elapsed>>
    /\ UNCHANGED <<files, success, result, outcome, spawned>>
    /\ atTimeout' = IF idx < Len(files) THEN NoProc ELSE atTimeout
    /\ UNCHANGED live
    /\ UNCHANGED <<sessionVars, launchVars>>

\* The helper thread, in run_one_file: p.start().
ThreadStartsWorker ==
    /\ tpc = "start"
    /\ proc' = "running"
    /\ spawned' = Append(spawned, idx)
    /\ tpc' = "join"
    /\ UNCHANGED <<files, idx, rpc, exitcode, ret_value, elapsed, success, result, outcome>>
    /\ live' = live \cup {idx}
    /\ UNCHANGED atTimeout
    /\ UNCHANGED <<sessionVars, launchVars>>

\* The helper thread, in run_one_file: p.start() raises (the process cannot
\* be created).  The exception ends the thread; nothing is appended to
\* ret_value.
ThreadStartFails ==
    /\ tpc = "start"
    /\ tpc' = "done"
    /\ UNCHANGED <<files, idx, rpc, proc, exitcode, ret_value, elapsed, success, result,
                   outcome, spawned, live, atTimeout>>
    /\ UNCHANGED <<sessionVars, launchVars>>

\* The worker process ends on its own.
WorkerExits ==
    /\ proc = "running"
    /\ files[idx] # "hang"
    /\ proc' = "exited"
    /\ exitcode' = Some(ExitStatus(files[idx]))
    /\ UNCHANGED <<files, idx, rpc, tpc, ret_value, elapsed, success, result, outcome, spawned>>
    /\ live' = live \ {idx}
    /\ UNCHANGED atTimeout
    /\ UNCHANGED <<sessionVars, launchVars>>

\* The helper thread: p.join() returns once the worker is gone, run_one_file
\* returns None and _target_func appends it to ret_value.
ThreadJoinsWorker ==
    /\ tpc = "join"
    /\ proc \in {"exited", "terminated"}
    /\ ret_value' = Append(ret_value, None)
    /\ tpc' = "done"
    /\ UNCHANGED <<files, idx, rpc, proc, exitcode, elapsed, success, result, outcome, spawned>>
    /\ UNCHANGED <<live, atTimeout>>
    /\ UNCHANGED <<sessionVars, launchVars>>

\* t.join(timeout = timeout) returns because the helper thread ended.
JoinReturns ==
    /\ rpc = "joining"
    /\ tpc = "done"
    /\ rpc' = "joined"
    /\ UNCHANGED <<files, idx, tpc, proc, exitcode, ret_value, elapsed, success, result,
                   outcome, spawned>>
    /\ UNCHANGED <<live, atTimeout>>
    /\ UNCHANGED <<sessionVars, launchVars>>

\* t.join(timeout = timeout) returns because the timeout ran out.
TimeoutElapses ==
    /\ rpc = "joining"
    /\ tpc # "done"
    /\ elapsed' = TRUE
    /\ rpc' = "joined"
    /\ UNCHANGED <<files, idx, tpc, proc, exitcode, ret_value, success, result, outcome,
                   spawned>>
    /\ atTimeout' = proc
    /\ UNCHANGED live
    /\ UNCHANGED <<sessionVars, launchVars>>

\* t.is_alive()
\* (variant: the thread is never reported alive)
IsAliveMutNever == FALSE

IsAlive == tpc # "done"

\* (variant of CheckAlive: a timeout is swallowed and the loop goes on to the
\* next file)
CheckAliveMutSwallow ==
    /\ rpc = "joined"
    /\ IF ~IsAlive /\ ret_value = <<>>
       THEN /\ rpc' = "raised"
            /\ result' = Propagated("RuntimeError")
       ELSE /\ rpc' = IF IsAlive THEN "loop" ELSE "check_exit"
            /\ UNCHANGED result
    /\ UNCHANGED <<files, idx, tpc, proc, exitcode, ret_value, elapsed, success, outcome,
                   spawned>>
    /\ UNCHANGED <<live, atTimeout>>
    /\ UNCHANGED <<sessionVars, launchVars>>

\* run_with_timeout after t.join: "if t.is_alive(): raise TimeoutError()",
\* "if not ret_value: raise RuntimeError()", "return ret_value[0]"; back in
\* run_unittest_files only TimeoutError is caught.
CheckAlive ==
    /\ rpc = "joined"
    /\ IF IsAlive
       THEN /\ rpc' = "timed_out"
            /\ UNCHANGED result
       ELSE IF ret_value = <<>>
       THEN /\ rpc' = "raised"
            /\ result' = Propagated("RuntimeError")
       ELSE /\ rpc' = "check_exit"
            /\ UNCHANGED result
    /\ UNCHANGED <<files, idx, tpc, proc, exitcode, ret_value, elapsed, success, outcome,
                   spawned>>
    /\ UNCHANGED <<live, atTimeout>>
    /\ UNCHANGED <<sessionVars, launchVars>>

\* "if p.exitcode != 0: success = False; break", else the next iteration.
CheckExit ==
    /\ rpc = "check_exit"
    /\ IF exitcode # Some(0)
       THEN /\ success' = FALSE
            /\ outcome' = Append(outcome, "FAILED")
            /\ rpc' = "after_loop"
       ELSE /\ outcome' = Append(outcome, "SUCCEEDED")
            /\ rpc' = "loop"
            /\ UNCHANGED success
    /\ UNCHANGED <<files, idx, tpc, proc, exitcode, ret_value, elapsed, result, spawned>>
    /\ UNCHANGED <<live, atTimeout>>
    /\ UNCHANGED <<sessionVars, launchVars>>

\* (variant of Terminate: terminate() on a Process that was never started does
\* nothing)
TerminateMutNoRaise ==
    /\ rpc = "timed_out"
    /\ rpc' = "grace"
    /\ proc' = IF proc = "running" THEN "terminated" ELSE proc
    /\ exitcode' = IF proc = "running" THEN Some(SigTerm) ELSE exitcode
    /\ live' = IF proc = "running" THEN live \ {idx} ELSE live
    /\ UNCHANGED <<files, idx, tpc, ret_value, elapsed, success, result, outcome, spawned,
                   atTimeout>>
    /\ UNCHANGED <<sessionVars, launchVars>>

\* "except TimeoutError: p.terminate()".  On a Process that was never started
\* terminate() reads self._popen, which is None: AttributeError, raised inside
\* the handler and so out of run_unittest_files.  On a process that has
\* exited it does nothing.
Terminate ==
    /\ rpc = "timed_out"
    /\ IF proc = "unstarted"
       THEN /\ rpc' = "raised"
            /\ result' = Propagated("AttributeError")
            /\ UNCHANGED <<proc, exitcode>>
       ELSE /\ rpc' = "grace"
            /\ proc' = IF proc = "running" THEN "terminated" ELSE proc
            /\ exitcode' = IF proc = "running" THEN Some(SigTerm) ELSE exitcode
            /\ UNCHANGED result
    /\ UNCHANGED <<files, idx, tpc, ret_value, elapsed, success, outcome, spawned>>
    /\ live' = IF proc = "running" THEN live \ {idx} ELSE live
    /\ UNCHANGED atTimeout
    /\ UNCHANGED <<sessionVars, launchVars>>

\* The value returned from the timeout handler: "return False".
\* (variant: the timeout handler returns what a failed unit returns)
TimeoutReturnMutFail == PyInt(-1)

TimeoutReturn == PyBool(FALSE)

\* "time.sleep(5)", the "Timeout after ..." message, "return False".
TimeoutReport ==
    /\ rpc = "grace"
    /\ outcome' = Append(outcome, "TIMED_OUT")
    /\ result' = Returned(TimeoutReturn)
    /\ rpc' = "returned"
    /\ UNCHANGED <<files, idx, tpc, proc, exitcode, ret_value, elapsed, success, spawned>>
    /\ UNCHANGED <<live, atTimeout>>
    /\ UNCHANGED <<sessionVars, launchVars>>

\* "return 0 if success else -1"
FinalReturn(ok) == IF ok THEN PyInt(0) ELSE PyInt(-1)

\* After the loop: the "Success"/"Fail" message and the return.
FinalReport ==
    /\ rpc = "after_loop"
    /\ result' = Returned(FinalReturn(success))
    /\ rpc' = "returned"
    /\ UNCHANGED <<files, idx, tpc, proc, exitcode, ret_value, elapsed, success, outcome,
                   spawned>>
    /\ UNCHANGED <<live, atTimeout>>
    /\ UNCHANGED <<sessionVars, launchVars>>

\* run_unittest_files(files, timeout_per_file) is called: "success = True".
InitRunner ==
    /\ phase = "new"
    /\ self = NoObj
    /\ infoFetches = 0
    /\ op = "none"
    /\ args = NoArgs
    /\ sent = <<>>
    /\ got = <<>>
    /\ err = NoErr
    /\ ret = NoRet
    /\ st = "closed"
    /\ pos = 0
    /\ consumed = <<>>
    /\ yielded = <<>>
    /\ files \in SeqUpTo(Behaviours, MaxFiles)
    /\ idx = 0
    /\ rpc = "loop"
    /\ tpc = "none"
    /\ proc = NoProc
    /\ exitcode = None
    /\ ret_value = <<>>
    /\ elapsed = FALSE
    /\ success = TRUE
    /\ result = NoResult
    /\ outcome = <<>>
    /\ spawned = <<>>
    /\ live = {}
    /\ atTimeout = NoProc
    /\ LaunchIdle

NextRunner ==
    \/ NextFile
    \/ ThreadStartsWorker
    \/ ThreadStartFails
    \/ WorkerExits
    \/ ThreadJoinsWorker
    \/ JoinReturns
    \/ TimeoutElapses
    \/ CheckAlive
    \/ CheckExit
    \/ Terminate
    \/ TimeoutReport
    \/ FinalReport

SpecRunner == InitRunner /\ [][NextRunner]_vars

----------------------------------------------------------------------------
\* Server readiness polling: popen_launch_server.

\* What a poll "requests.get(base_url/v1/models)" ends in: a
\* requests.RequestException (no connection), or a response with a status.
PollFailed == [reachable |-> FALSE, status_code |-> 0]

PollStatus(status) == [reachable |-> TRUE, status_code |-> status]

PollAnswers == {PollFailed} \cup {PollStatus(c) : c \in {200, 401, 503}}

\* "if response.status_code == 200"
\* (variant: any response counts as ready)
IsReadyMutAnyStatus(response) == response.reachable

IsReady(response) == response.reachable /\ response.status_code = 200

\* The handle of the launched server, subprocess.Popen(command).
ServerProcess == "process"

\* "while time.time() - start_time < timeout": the period is over and
\* TimeoutError is raised, or the next poll is sent.
LoopHead ==
    /\ lpc = "head"
    /\ expired \/ Len(polls) < MaxPolls
    /\ IF expired
       THEN /\ lpc' = "raised"
            /\ launched' = Propagated("TimeoutError")
       ELSE /\ lpc' = "polling"
            /\ UNCHANGED launched
    /\ UNCHANGED <<polls, expired>>
    /\ UNCHANGED <<sessionVars, runnerVars>>

\* The poll ends: the process is returned on status 200; any other status
\* falls through, a RequestException is passed over, and the loop sleeps.
PollEnds(response) ==
    /\ lpc = "polling"
    /\ polls' = Append(polls, response)
    /\ IF IsReady(response)
       THEN /\ lpc' = "returned"
            /\ launched' = Returned(ServerProcess)
       ELSE /\ lpc' = "sleeping"
            /\ UNCHANGED launched
    /\ UNCHANGED expired
    /\ UNCHANGED <<sessionVars, runnerVars>>

\* "time.sleep(10)" is over.
Wake ==
    /\ lpc = "sleeping"
    /\ lpc' = "head"
    /\ UNCHANGED <<polls, expired, launched>>
    /\ UNCHANGED <<sessionVars, runnerVars>>

\* Time passes: timeout seconds have gone by since start_time.
PeriodEnds ==
    /\ lpc \in {"head", "polling", "sleeping"}
    /\ ~expired
    /\ expired' = TRUE
    /\ UNCHANGED <<lpc, polls, launched>>
    /\ UNCHANGED <<sessionVars, runnerVars>>

\* popen_launch_server has launched the server and taken start_time; a
\* timeout that is not positive is over from the start.
InitLaunch ==
    /\ phase = "new"
    /\ self = NoObj
    /\ infoFetches = 0
    /\ op = "none"
    /\ args = NoArgs
    /\ sent = <<>>
    /\ got = <<>>
    /\ err = NoErr
    /\ ret = NoRet
    /\ st = "closed"
    /\ pos = 0
    /\ consumed = <<>>
    /\ yielded = <<>>
    /\ RunnerIdle
    /\ lpc = "head"
    /\ polls = <<>>
    /\ expired \in BOOLEAN
    /\ launched = NoResult

NextLaunch ==
    \/ LoopHead
    \/ \E response \in PollAnswers : PollEnds(response)
    \/ Wake
    \/ PeriodEnds

SpecLaunch == InitLaunch /\ [][NextLaunch]_vars

----------------------------------------------------------------------------
\* Properties of the streaming loop (checked under SpecStream).

\* A data frame that decodes into {text, meta_info}.
IsWellFormed(chunk) ==
    /\ chunk.nonempty
    /\ chunk.prefixed
    /\ chunk.rest = "json"
    /\ {"text", "meta_info"} \subseteq DOMAIN chunk.obj

\* A data-prefixed frame, not the sentinel, that does not decode into
\* {text, meta_info}.
IsMalformed(chunk) ==
    /\ chunk.nonempty
    /\ chunk.prefixed
    /\ chunk # DoneLine
    /\ ~IsWellFormed(chunk)

\* The well-formed data frames read so far, in arrival order.
DataFrames == SelectSeq(consumed, IsWellFormed)

IsPrefix(a, b) == Len(a) <= Len(b) /\ SubSeq(b, 1, Len(a)) = a

RECURSIVE ConcatDeltas(_)
ConcatDeltas(ys) == IF ys = <<>> THEN <<>> ELSE ys[1][1] \o ConcatDeltas(Tail(ys))

RECURSIVE SumLen(_)
SumLen(ys) == IF ys = <<>> THEN 0 ELSE Len(ys[1][1]) + SumLen(Tail(ys))

\* Each snapshot read so far extends the one before it.
PrefixChain ==
    \A i \in 1..(Len(DataFrames) - 1) :
        IsPrefix(DataFrames[i].obj.text, DataFrames[i + 1].obj.text)

\* C1: when the cumulative texts S1..Sn of the data frames read so far each
\* extend the previous one, the concatenation of the yielded deltas is Sn and
\* the cursor is len(Sn), after every frame.
C1_StreamDeltaProperty ==
    (DataFrames # <<>> /\ PrefixChain)
        => /\ ConcatDeltas(yielded) = DataFrames[Len(DataFrames)].obj.text
           /\ pos = Len(DataFrames[Len(DataFrames)].obj.text)

\* Three snapshots, each a proper extension of the one before, were read.
C1_Witness ==
    /\ Len(DataFrames) = 3
    /\ PrefixChain
    /\ \A i \in 1..3 : yielded[i][1] # <<>> \/ i = 1
    /\ Len(DataFrames[1].obj.text) < Len(DataFrames[2].obj.text)
    /\ Len(DataFrames[2].obj.text) < Len(DataFrames[3].obj.text)

\* C2: whatever the frames are, the cursor equals the total length of the
\* deltas yielded so far, and no step decreases it.
C2_CursorInvariant ==
    /\ [](pos = SumLen(yielded))
    /\ [][pos' >= pos]_vars

\* A snapshot shorter than the text already emitted was read, then a longer one.
C2_Witness ==
    /\ Len(DataFrames) = 3
    /\ Len(DataFrames[2].obj.text) < Len(DataFrames[1].obj.text)
    /\ ~IsPrefix(DataFrames[1].obj.text, DataFrames[3].obj.text)
    /\ yielded[2][1] = <<>>
    /\ pos > 0

\* C3: one (delta, meta_info) pair is yielded per well-formed data frame read,
\* in arrival order; the sentinel ends the stream without error and is the
\* last line ever read.
C3_OnePairPerFrameUntilSentinel ==
    /\ Len(yielded) = Len(DataFrames)
    /\ \A k \in 1..Len(yielded) :
          /\ yielded[k][2] = DataFrames[k].obj.meta_info
          /\ Len(yielded[k][1]) <= Len(DataFrames[k].obj.text)
          /\ yielded[k][1] =
                 SliceFrom(DataFrames[k].obj.text,
                           Len(DataFrames[k].obj.text) - Len(yielded[k][1]))
    /\ \A i \in 1..Len(consumed) :
          consumed[i] = DoneLine => (i = Len(consumed) /\ st = "done" /\ err = NoErr)
    /\ st = "done" => (consumed # <<>> /\ consumed[Len(consumed)] = DoneLine)

\* Two data frames were yielded, then the sentinel ended the stream.
C3_Witness ==
    /\ st = "done"
    /\ Len(consumed) = 3
    /\ Len(yielded) = 2
    /\ yielded[1][1] # <<>>
    /\ yielded[2][1] # <<>>

----------------------------------------------------------------------------
\* Properties of the session's calls (checked under Spec).

\* The spec's error kinds, as the exceptions the client raises:
\*   ProtocolError  the RuntimeError _assert_success raises
\*   UsageError     the exception of a check the client makes on its arguments
ProtocolErrorClass == "RuntimeError"

IsUsageError(e) ==
    \/ e.cls = "AssertionError"
    \/ e = Raise("RuntimeError", "Invalid dtype")

\* The calls that take a program state s.
StateCalls == {"commit_lazy_operations", "fill_image", "generate", "generate_stream", "select"}

\* The url a call's requests go to.
UrlOf(call) ==
    self.base_url \o
        (IF call = "flush_cache" THEN "/flush_cache"
         ELSE IF call = "get_server_args" THEN "/get_server_args"
         ELSE IF call = "concatenate_and_append" THEN "/concate_and_append_request"
         ELSE "/generate")

\* C5: in every call, a response whose status is not 200 is the last one the
\* call receives; the call raises the ProtocolError class with exactly that
\* response's decoded body as its detail, and returns nothing.
C5_StatusPropagation ==
    \A i \in 1..Len(got) :
        (got[i].reachable /\ got[i].status_code # 200)
            => /\ i = Len(got)
               /\ err = Raise(ProtocolErrorClass, got[i].body)
               /\ ret = NoRet
               /\ op = "generate_stream" => st = "failed"
               /\ op = "__init__" => phase = "failed"

\* The scoring request of select was answered 204.
C5_Witness ==
    /\ op = "select"
    /\ Len(got) = 2
    /\ got[2].reachable
    /\ got[2].status_code = 204
    /\ err.detail = "overloaded"

\* C6 as stated: flush_cache and get_server_args each dispatch one request to
\* their path with the session's credential, succeed on a 200 answer
\* (get_server_args returning the decoded body) and fail only on an
\* unreachable transport or a non-200 status.
C6_ProxyCalls ==
    op \in {"flush_cache", "get_server_args"}
        => /\ Len(sent) = 1
           /\ sent[1].url = UrlOf(op)
           /\ sent[1].api_key = self.api_key
           /\ err.cls \in {"none", "ConnectionError", ProtocolErrorClass}
           /\ (got[1].reachable /\ got[1].status_code = 200)
                  => /\ err = NoErr
                     /\ op = "get_server_args"
                            => ret = [kind |-> "value", value |-> got[1].body]

\* A caller contract violation in the arguments of the last call.
HasViolation ==
    \/ op \in StateCalls /\ Len(args.s.images_) > 1
    \/ op \in {"generate", "generate_stream"}
           /\ args.sampling_params.dtype \notin {DtNone, "int_type", "int"}
    \/ op = "select" /\ args.temperature > SelectMaxTemperature

\* C7: a call whose arguments violate the caller's contract raises a
\* UsageError and dispatches no request.
C7_UsageErrorBeforeNetwork ==
    HasViolation => (IsUsageError(err) /\ sent = <<>> /\ got = <<>> /\ ret = NoRet)

\* select was called with two images, alone among the violations.
C7_Witness ==
    /\ op = "select"
    /\ Len(args.s.images_) = 2
    /\ args.temperature <= SelectMaxTemperature
    /\ args.choices # <<>>
    /\ IsUsageError(err)
    /\ sent = <<>>

\* C8: the scoring request of select carries logprob_start_len = max(p - 2, 0)
\* for the prompt token count p of the priming response.
C8_LogprobWindow ==
    (op = "select" /\ Len(sent) = 2)
        => LET p == got[1].body.meta_info.prompt_tokens
           IN  /\ p <= 2 => sent[2].json[1].logprob_start_len = 0
               /\ p > 2 => sent[2].json[1].logprob_start_len = p - 2
               /\ "logprob_start_len" \in DOMAIN sent[2].json[1]

\* The priming response reported one prompt token.
C8_Witness ==
    /\ op = "select"
    /\ Len(sent) = 2
    /\ got[1].body.meta_info.prompt_tokens = 1
    /\ sent[2].json[1].logprob_start_len = 0

\* C9: a select that returns, returns a choice whose normalized prompt
\* log-probability is the maximum and that comes before every other choice
\* holding the maximum.
C9_SelectsFirstMaximum ==
    (op = "select" /\ ret # NoRet)
        => LET xs == [i \in 1..Len(got[2].body) |->
                          got[2].body[i].meta_info.normalized_prompt_logprob]
           IN  /\ Len(xs) = Len(args.choices)
               /\ ret.normalized_prompt_logprobs = xs
               /\ \E i \in 1..Len(xs) :
                     /\ ret.decision = args.choices[i]
                     /\ \A j \in 1..Len(xs) : xs[j] <= xs[i]
                     /\ \A j \in 1..(i - 1) : xs[j] < xs[i]

\* Two different choices were scored equal and the first was returned.
C9_Witness ==
    /\ op = "select"
    /\ ret # NoRet
    /\ Len(args.choices) = 2
    /\ args.choices[1] # args.choices[2]
    /\ got[2].body[1] = got[2].body[2]
    /\ ret.decision = args.choices[1]

\* The request is a post to /generate asking for no new token.
IsZeroTokenRequest(req) ==
    /\ req.url = UrlOf("select")
    /\ req.json # None
    /\ req.json[1].sampling_params.max_new_tokens = 0

\* C10: a select never dispatches more than two requests; when its priming
\* request fails it dispatches only that one; when it returns it has
\* dispatched the priming request on the prompt alone and then one scoring
\* request for [prompt + choice] over the choices in order, both asking for
\* no new token, the second with logprob return enabled.
C10_SelectTwoRequests ==
    op = "select"
        => /\ Len(sent) <= 2
           /\ Len(got) = Len(sent)
           /\ (Len(got) >= 1 /\ (~got[1].reachable \/ got[1].status_code # 200))
                  => Len(sent) = 1
           /\ ret # NoRet
                  => /\ Len(sent) = 2
                     /\ IsZeroTokenRequest(sent[1])
                     /\ sent[1].json[1].text = args.s.text_
                     /\ "return_logprob" \notin DOMAIN sent[1].json[1]
                     /\ IsZeroTokenRequest(sent[2])
                     /\ Len(sent[2].json[1].text) = Len(args.choices)
                     /\ \A i \in 1..Len(args.choices) :
                           sent[2].json[1].text[i] = args.s.text_ \o args.choices[i]
                     /\ sent[2].json[1].return_logprob = TRUE

\* A select over two different choices returned.
C10_Witness ==
    /\ op = "select"
    /\ ret # NoRet
    /\ Len(args.choices) = 2
    /\ args.choices[1] # args.choices[2]
    /\ Len(sent) = 2

\* The lines the loop looks into: non-empty and starting with "data:".
IsDataPrefixed(chunk) == chunk.nonempty /\ chunk.prefixed

\* The pairs a consumer gets from a body made of the given lines, the cursor
\* starting at p.
RECURSIVE DeltasOf(_, _)
DeltasOf(lines, p) ==
    IF lines = <<>> THEN <<>>
    ELSE LET r == LoopBody(Head(lines), p)
         IN  r.out \o (IF r.kind \in {"break", "raise"}
                       THEN <<>>
                       ELSE DeltasOf(Tail(lines), r.pos))

\* C20: generate_stream ignores a frame that does not begin with the data
\* prefix, the empty line included.  Reading such a line raises nothing,
\* yields nothing, leaves the cursor where it was and the stream open; and
\* the pairs yielded from a body are those yielded from the same body with
\* these lines taken out.
C20_NonDataFramesIgnored ==
    /\ [][(st = "open" /\ Len(consumed') = Len(consumed) + 1
             /\ ~IsDataPrefixed(consumed'[Len(consumed')]))
            => /\ pos' = pos
               /\ yielded' = yielded
               /\ err' = err
               /\ st' = "open"]_vars
    /\ [](yielded = DeltasOf(SelectSeq(consumed, IsDataPrefixed), 0))

\* A keep-alive comment or an empty line came between two data frames, and
\* both frames were yielded.
C20_Witness ==
    /\ Len(consumed) >= 3
    /\ IsWellFormed(consumed[1])
    /\ consumed[2] \in {BlankLine, CommentLine}
    /\ IsWellFormed(consumed[Len(consumed)])
    /\ Len(yielded) = 2
    /\ pos > 0

\* C18: in the payload of generate and generate_stream an optional field is
\* present exactly when its parameter is set.  sampling_params carries the
\* "dtype" discriminator, with the value "int", exactly when the dtype selector
\* is the integer type; each of return_logprob, logprob_start_len,
\* top_logprobs_num and return_text_in_logprobs is a key of the payload exactly
\* when the parameter is not None, and then with the parameter's value (False
\* and 0 included), so no key is ever sent with a null value.
C18_OptionalFieldsIffSet ==
    (op \in {"generate", "generate_stream"} /\ sent # <<>>)
        => LET data == sent[1].json[1]
               sp == args.sampling_params
           IN  /\ "dtype" \in DOMAIN data.sampling_params <=> sp.dtype \in {"int_type", "int"}
               /\ "dtype" \in DOMAIN data.sampling_params
                      => data.sampling_params.dtype = "int"
               /\ \A i \in 1..Len(LogprobItems) :
                      LET item == LogprobItems[i]
                      IN  /\ item \in DOMAIN data <=> sp[item] # None
                          /\ item \in DOMAIN data => Some(data[item]) = sp[item]

\* A request went out with return_logprob = False and logprob_start_len = 0
\* set, top_logprobs_num unset and an integer dtype.
C18_Witness ==
    /\ op = "generate"
    /\ sent # <<>>
    /\ args.sampling_params.return_logprob = Some(FALSE)
    /\ args.sampling_params.logprob_start_len = Some(0)
    /\ args.sampling_params.top_logprobs_num = None
    /\ args.sampling_params.dtype = "int_type"
    /\ sent[1].json[1].return_logprob = FALSE
    /\ "top_logprobs_num" \notin DOMAIN sent[1].json[1]

LastOutcome == IF outcome = <<>> THEN "none" ELSE outcome[Len(outcome)]

HasOutcome(o) == \E i \in 1..Len(outcome) : outcome[i] = o

\* The value run_unittest_files returns when every unit succeeded.
AllSuccessValue == PyInt(0)

\* The run reports overall failure: what it returns does not compare equal to
\* the all-success value.
ReportsFailure == result.kind = "return" /\ ~PyEq(result.value, AllSuccessValue)

\* C12: fail-fast.  Workers are started in list order, the worker of a unit
\* only after every earlier unit was recorded SUCCEEDED; once a worker has
\* finished with a non-success exit status no later unit is started, and
\* the run, when it returns, reports overall failure.
C12_FailFast ==
    /\ \A i \in 1..Len(spawned) : spawned[i] = i
    /\ \A i \in 1..(idx - 1) : outcome[i] = "SUCCEEDED" /\ files[i] = "pass"
    /\ exitcode = Some(ExitStatus("fail")) => Len(spawned) = idx
    /\ (rpc = "returned" /\ exitcode = Some(ExitStatus("fail"))) => ReportsFailure

\* C13: timeout isolation.  When the timeout has run out on a unit whose
\* worker never ends on its own, the runner gets past the unit only with the
\* worker terminated and no exception, records the unit TIMED_OUT, has started
\* no later unit and returns.
C13_TimeoutIsolation ==
    (files # <<>> /\ idx > 0 /\ files[idx] = "hang" /\ elapsed)
        => /\ rpc # "raised"
           /\ rpc \in {"grace", "returned"} => proc = "terminated"
           /\ rpc = "returned" => LastOutcome = "TIMED_OUT" /\ Len(outcome) = idx
           /\ Len(spawned) <= idx

\* C14: a run that ended in a timeout reports overall failure, with a value
\* the caller cannot take for the all-success value.
C14_TimeoutReportsFailure ==
    (rpc = "returned" /\ LastOutcome = "TIMED_OUT") => ReportsFailure

\* C15: the run reports overall success exactly when every unit of the list
\* was run and recorded SUCCEEDED (vacuously for the empty list).
C15_SuccessIffAllSucceeded ==
    rpc = "returned"
        => (~ReportsFailure
               <=> /\ Len(outcome) = Len(files)
                   /\ \A i \in 1..Len(outcome) : outcome[i] = "SUCCEEDED")

\* C16: the result tells a unit that ran and failed from one that had to be
\* killed.  A run that ended on a FAILED unit returns -1; a run that ended on
\* a TIMED_OUT unit returns a value that does not compare equal to -1.
C16_FailedDiffersFromTimedOut ==
    rpc = "returned"
        => /\ LastOutcome = "FAILED" => PyEq(result.value, PyInt(-1))
           /\ LastOutcome = "TIMED_OUT" => ~PyEq(result.value, PyInt(-1))
           /\ ~(HasOutcome("FAILED") /\ HasOutcome("TIMED_OUT"))

\* A run returned after killing the hanging worker of its second unit.
C16_Witness ==
    /\ rpc = "returned"
    /\ idx = 2
    /\ files[2] = "hang"
    /\ proc = "terminated"
    /\ LastOutcome = "TIMED_OUT"
    /\ result = Returned(PyBool(FALSE))

\* The request that got the answer res failed: no answer at all, or a status
\* other than 200.
RequestFailed(res) == ~res.reachable \/ res.status_code # 200

\* C21: no client operation retries.  Every call (the constructor included)
\* has as many answers as requests; it dispatches at most one request, select
\* at most two, and never the same request twice; a request that failed is
\* the last one of its call, and the call ends with an error.
C21_NoRetry ==
    op # "none"
        => /\ Len(got) = Len(sent)
           /\ Len(sent) <= (IF op = "select" THEN 2 ELSE 1)
           /\ \A i, j \in 1..Len(sent) : i # j => sent[i] # sent[j]
           /\ \A i \in 1..Len(got) :
                  RequestFailed(got[i]) => i = Len(got) /\ err # NoErr /\ ret = NoRet

\* The priming request of a select got a non-success status, and select sent
\* nothing after it.
C21_Witness ==
    /\ op = "select"
    /\ Len(sent) = 1
    /\ got[1].reachable
    /\ got[1].status_code = 500
    /\ err.cls = ProtocolErrorClass

\* C22: an invalid dtype selector given to generate or generate_stream is
\* rejected before any request, is not coerced to an allowed value, and is
\* reported with an error of another kind than the one reported for a
\* non-success status.
C22_DtypeErrorKind ==
    (op \in {"generate", "generate_stream"}
         /\ args.sampling_params.dtype \notin {DtNone, "int_type", "int"})
        => /\ sent = <<>>
           /\ err # NoErr
           /\ err.cls # ProtocolErrorClass

\* C23: the runner is strictly sequential.  At most one worker process is
\* running at any time; a worker is started only while no other is running,
\* and only after every earlier unit's worker has finished with a success
\* exit status and was recorded so.
C23_StrictlySequential ==
    /\ [](Cardinality(live) <= 1)
    /\ [](\A k \in 1..Len(spawned) : \A i \in 1..(spawned[k] - 1) :
             /\ i \notin live
             /\ i \in {spawned[j] : j \in 1..Len(spawned)}
             /\ files[i] = "pass"
             /\ outcome[i] = "SUCCEEDED")
    /\ [][Len(spawned') > Len(spawned) => live = {} /\ live' = {idx}]_vars

\* The worker of the second unit is running after the first unit succeeded.
C23_Witness ==
    /\ idx = 2
    /\ live = {2}
    /\ spawned = <<1, 2>>
    /\ outcome = <<"SUCCEEDED">>
    /\ proc = "running"

\* The state of unit i: what the runner recorded for it, else RUNNING once
\* its worker was started, else PENDING.
UnitState(i) ==
    IF i <= Len(outcome) THEN outcome[i]
    ELSE IF \E k \in 1..Len(spawned) : spawned[k] = i THEN "RUNNING"
    ELSE "PENDING"

TerminalStates == {"SUCCEEDED", "FAILED", "TIMED_OUT"}

\* C24: every unit follows PENDING -> RUNNING -> {SUCCEEDED, FAILED,
\* TIMED_OUT}.  No unit's worker is started twice; a unit changes state only
\* from PENDING to RUNNING or from RUNNING to a terminal state, so a terminal
\* state is never left; and when run_unittest_files has returned no unit is
\* RUNNING.
C24_UnitStateMachine ==
    /\ [](\A j, k \in 1..Len(spawned) : j # k => spawned[j] # spawned[k])
    /\ [][\A i \in 1..Len(files) :
            UnitState(i)' # UnitState(i)
                => \/ UnitState(i) = "PENDING" /\ UnitState(i)' = "RUNNING"
                   \/ UnitState(i) = "RUNNING" /\ UnitState(i)' \in TerminalStates]_vars
    /\ [](rpc = "returned" => \A i \in 1..Len(files) : UnitState(i) # "RUNNING")

\* The run returned with one unit in each of SUCCEEDED, TIMED_OUT and PENDING.
C24_Witness ==
    /\ rpc = "returned"
    /\ Len(files) = 3
    /\ UnitState(1) = "SUCCEEDED"
    /\ UnitState(2) = "TIMED_OUT"
    /\ UnitState(3) = "PENDING"

\* C25: a unit is recorded TIMED_OUT only if its worker had not finished
\* when the timeout ran out; a unit whose worker had finished by then is
\* recorded by its exit status, SUCCEEDED or FAILED.
C25_TimedOutOnlyIfRunning ==
    /\ LastOutcome = "TIMED_OUT" => atTimeout # "exited"
    /\ (atTimeout = "exited" /\ Len(outcome) = idx)
           => LastOutcome = (IF exitcode = Some(0) THEN "SUCCEEDED" ELSE "FAILED")

\* func, run in the helper thread, has ended / has ended by returning.
FuncEnded == tpc = "done"

FuncReturned == tpc = "done" /\ ret_value # <<>>

\* C26: run_with_timeout, when its bounded wait is over, returns func's
\* value exactly when func has ended by returning (never for a func that has
\* not ended), raises TimeoutError exactly when func is still running, which
\* happens only after the timeout ran out, and raises RuntimeError exactly
\* when func has ended without a value; the RuntimeError is not caught by
\* run_unittest_files.
C26_RunWithTimeout ==
    /\ [][(rpc = "joined" /\ rpc' # "joined")
            => /\ rpc' = "check_exit" <=> FuncReturned
               /\ rpc' = "check_exit" => ret_value[1] = None
               /\ rpc' = "timed_out" <=> ~FuncEnded
               /\ rpc' = "timed_out" => elapsed
               /\ rpc' = "raised" <=> (FuncEnded /\ ~FuncReturned)
               /\ rpc' = "raised" => result' = Propagated("RuntimeError")]_vars
    /\ [](rpc = "check_exit" => FuncReturned)

\* func raised (the worker could not be started) and run_with_timeout raised
\* RuntimeError.
C26_Witness ==
    /\ rpc = "raised"
    /\ result = Propagated("RuntimeError")
    /\ FuncEnded
    /\ ret_value = <<>>
    /\ proc = "unstarted"

\* C27: the runner calls terminate only on a worker that was started, and
\* reads the exit status only after the worker was joined.
C27_TerminateOnlyStarted ==
    /\ rpc = "timed_out" => proc # "unstarted"
    /\ rpc = "check_exit" => tpc = "done" /\ proc \in {"exited", "terminated"}

\* A poll that was answered with status 200.
Answered200(response) == response.reachable /\ response.status_code = 200

\* C28: readiness polling in popen_launch_server.  The function returns, and
\* then the launched process, only when its last poll was answered 200, and
\* it returns on the first such poll; a poll that failed to connect or was
\* answered otherwise raises nothing and is followed by the sleep and the
\* next test of the timeout, which sends the next poll while the period
\* lasts; the only exception is TimeoutError, raised at that test once the
\* period has ended, with no poll answered 200 and no process returned.
C28_ReadinessPolling ==
    /\ [](launched.kind = "return"
             => /\ launched.value = ServerProcess
                /\ polls # <<>>
                /\ Answered200(polls[Len(polls)]))
    /\ [](\A i \in 1..Len(polls) :
             Answered200(polls[i]) => i = Len(polls) /\ launched.kind = "return")
    /\ [](launched.kind = "raise"
             => /\ launched.cls = "TimeoutError"
                /\ expired
                /\ \A i \in 1..Len(polls) : ~Answered200(polls[i]))
    /\ [][(lpc = "polling" /\ lpc' # "polling" /\ ~Answered200(polls'[Len(polls')]))
            => lpc' = "sleeping" /\ launched' = NoResult]_vars
    /\ [][(lpc = "sleeping" /\ lpc' # "sleeping") => lpc' = "head"]_vars
    /\ [][(lpc = "head" /\ lpc' # "head")
            => IF expired THEN lpc' = "raised" ELSE lpc' = "polling"]_vars

\* The process was returned on the third poll, after a refused connection
\* and a 503.
C28_Witness ==
    /\ lpc = "returned"
    /\ launched = Returned(ServerProcess)
    /\ Len(polls) = 3
    /\ ~polls[1].reachable
    /\ polls[2].status_code = 503
    /\ polls[3].status_code = 200

\* C17: the model metadata is fetched exactly once, at construction, and is
\* read-only afterwards.  A constructed session has sent exactly one request to
\* /get_model_info, however many calls followed; construction stores the
\* endpoint configuration it was given, the decoded model_info and the chat
\* template of its model_path; no later call changes any attribute of the
\* session; get_model_name and get_chat_template dispatch no request, cannot
\* fail, and return the cached model_path and chat template.
C17_MetadataFetchedOnce ==
    /\ [](infoFetches = IF phase = "new" THEN 0 ELSE 1)
    /\ [][phase' = "ready" /\ phase = "new" =>
            /\ self'.base_url = args'.base_url
            /\ self'.api_key = args'.api_key
            /\ self'.verify = args'.verify
            /\ self'.model_info = got'[1].body
            /\ self'.chat_template =
                   get_chat_template_by_model_path(got'[1].body.model_path)]_vars
    /\ [][phase = "ready" => phase' = "ready" /\ self' = self]_vars
    /\ [](op \in {"get_model_name", "get_chat_template"} =>
            /\ sent = <<>>
            /\ err = NoErr
            /\ ret = [kind |-> "value",
                      value |-> IF op = "get_model_name"
                                THEN self.model_info.model_path
                                ELSE self.chat_template])

\* get_model_name has answered from the cache of a session that was
\* constructed with one metadata request.
C17_Witness ==
    /\ phase = "ready"
    /\ op = "get_model_name"
    /\ sent = <<>>
    /\ infoFetches = 1
    /\ ret = [kind |-> "value", value |-> self.model_info.model_path]

\* The call returns (or its exception propagates) to the caller: the frame of
\* the call, with its locals, is gone; the session object stays.
Return ==
    /\ op # "none"
    /\ phase # "failed"
    /\ Finish("none", NoArgs, <<>>, <<>>, NoErr, NoRet)
    /\ CloseStream
    /\ UNCHANGED <<phase, self>>

Next ==
    \/ \E b \in BaseUrls, k \in ApiKeys, v \in Verifies : Construct(b, k, v)
    \/ GetModelName
    \/ GetChatTemplate
    \/ FlushCache
    \/ GetServerArgs
    \/ \E p \in Prompts : CachePrefix(p)
    \/ \E s \in ProgramStates : CommitLazyOperations(s)
    \/ \E s \in ProgramStates : FillImage(s)
    \/ \E s \in ProgramStates, sp \in SamplingParamsSet : Generate(s, sp)
    \/ \E s \in ProgramStates, sp \in SamplingParamsSet : GenerateStream(s, sp)
    \/ \E s \in ProgramStates, c \in ChoiceLists, temp \in Temperatures : Select(s, c, temp)
    \/ \E src \in SeqUpTo(Rids, MaxSrcRids), dst \in Rids : ConcatenateAndAppend(src, dst)
    \/ Return

Spec == Init /\ [][Next]_vars

====
